---- MODULE Spec2Model ----
(***************************************************************************)
(* geopandas.tools.clip: clip(gdf, mask, keep_geom_type).                  *)
(*                                                                         *)
(* The module follows src/geopandas/tools/clip.py function by function.    *)
(* Geometries are closed point sets of a cell complex on a doubled integer *)
(* grid: an atom <<x, y>> is a vertex (x, y even), an open edge (exactly   *)
(* one coordinate odd) or an open unit face (both odd).  On such sets the  *)
(* engine's intersection is set intersection, and a geometry's type is     *)
(* read off the dimensions of its maximal atoms.                           *)
(***************************************************************************)
EXTENDS Integers, Sequences, FiniteSets, TLC

VARIABLES gdf, mask, keep_geom_type, pc, mask_polygon, clipped_gdf,
          result, warnings, computed, exit_line

vars == <<gdf, mask, keep_geom_type, pc, mask_polygon, clipped_gdf,
          result, warnings, computed, exit_line>>

\* Largest number of rows of the input collection.
MaxRows == 2

(***************************************************************************)
(* Geometry engine (shapely, reached through GeoSeries): spec section 6.   *)
(***************************************************************************)

\* numpy.nan, the coordinate of the total bounds of an empty collection.
NaN == -1

Dim(a) == (a[1] % 2) + (a[2] % 2)

\* The closed cell of an atom: the atom and everything on its boundary.
Closure(a) ==
    {<<x, y>> : x \in (a[1] - (a[1] % 2))..(a[1] + (a[1] % 2)),
                y \in (a[2] - (a[2] % 2))..(a[2] + (a[2] % 2))}

\* The geometry generated by a set of atoms.
Cl(S) == UNION {Closure(a) : a \in S}

intersection(g, h) == g \cap h

intersects(g, h) == intersection(g, h) # {}

unary_union(geoms) == UNION {geoms[i] : i \in 1..Len(geoms)}

bounds(g) ==
    IF g = {} THEN <<NaN, NaN, NaN, NaN>>
    ELSE LET xs == {a[1] : a \in g}
             ys == {a[2] : a \in g}
         IN <<CHOOSE v \in xs : \A w \in xs : v <= w,
              CHOOSE v \in ys : \A w \in ys : v <= w,
              CHOOSE v \in xs : \A w \in xs : w <= v,
              CHOOSE v \in ys : \A w \in ys : w <= v>>

\* Float comparison: every comparison with nan is false.
Le(a, b) == a # NaN /\ b # NaN /\ a <= b

\* An atom of g is maximal when no other cell of g has it on its boundary;
\* such a cell is one of the eight atoms around it.
MaximalAtoms(g) ==
    {a \in g : \A dx, dy \in {-1, 0, 1} :
        LET b == <<a[1] + dx, a[2] + dy>>
        IN (b \in g /\ a \in Closure(b)) => a = b}

\* Two maximal atoms of one dimension belong to the same part when their
\* cells share a facet (faces an edge, edges a vertex).
Adjacent(a, b) ==
    /\ Dim(a) = Dim(b)
    /\ \E c \in Closure(a) \cap Closure(b) : Dim(c) = Dim(a) - 1

RECURSIVE Grow(_, _)
Grow(C, M) ==
    LET N == C \cup {b \in M : \E a \in C : Adjacent(a, b)}
    IN IF N = C THEN C ELSE Grow(N, M)

\* The single-part geometries a geometry is made of.
Parts(g) ==
    LET M == MaximalAtoms(g)
    IN {Cl(Grow({a}, M)) : a \in M}

AtomLess(a, b) == a[1] < b[1] \/ (a[1] = b[1] /\ a[2] < b[2])

MinAtom(S) == CHOOSE a \in S : \A b \in S : a = b \/ AtomLess(a, b)

RECURSIVE PartSeq(_)
PartSeq(ps) ==
    IF ps = {} THEN <<>>
    ELSE LET first == CHOOSE p \in ps :
                        \A q \in ps : p = q \/ AtomLess(MinAtom(MaximalAtoms(p)),
                                                        MinAtom(MaximalAtoms(q)))
         IN <<first>> \o PartSeq(ps \ {first})

\* explode of one geometry: its parts, in the engine's (fixed) order.
explode_geometry(g) == PartSeq(Parts(g))

geom_type(g) ==
    LET M == MaximalAtoms(g)
        dims == {Dim(a) : a \in M}
        multi == \E a \in M : Grow({a}, M) # M
    IN IF Cardinality(dims) # 1 THEN "GeometryCollection"
       ELSE IF dims = {0} THEN (IF multi THEN "MultiPoint" ELSE "Point")
       ELSE IF dims = {1} THEN (IF multi THEN "MultiLineString" ELSE "LineString")
       ELSE (IF multi THEN "MultiPolygon" ELSE "Polygon")

(***************************************************************************)
(* Tabular container: a collection is [kind, columns, rows]; a row is      *)
(* [label, part, geometry, attrs].  label is the row's identity (index     *)
(* label), part its position among the rows one explode made of it.        *)
(***************************************************************************)

NoFrame == [kind |-> "None", columns |-> {}, rows |-> <<>>]

geom_types(frame) == {geom_type(frame.rows[i].geometry) : i \in 1..Len(frame.rows)}

geometries(frame) == [i \in 1..Len(frame.rows) |-> frame.rows[i].geometry]

\* Union of the bounds of all geometries; nan on an empty collection.
total_bounds(geoms) == bounds(unary_union(geoms))

\* Index labels differ from positions and are not ascending in position.
LabelAt(i) == (i * 3) % 5

AttrValue(label, c) == IF c = "_order" THEN 200 + label ELSE 100 + label

MakeFrame(kind, cols, geoms) ==
    [kind |-> kind, columns |-> cols,
     rows |-> [i \in 1..Len(geoms) |->
                 [label |-> LabelAt(i), part |-> 0, geometry |-> geoms[i],
                  attrs |-> [c \in cols |-> AttrValue(LabelAt(i), c)]]]]

\* Position (1-based) in `frame` of the row labelled `label`.
PosOf(frame, label) == CHOOSE i \in 1..Len(frame.rows) : frame.rows[i].label = label

\* All orders in which a set of positions can be listed.
Perms(S) ==
    {s \in [1..Cardinality(S) -> S] : \A i, j \in 1..Cardinality(S) : s[i] = s[j] => i = j}

\* sindex.query(poly, predicate="intersects"): the positions of the rows that
\* intersect poly, in an order the index does not promise.
sindex_query(frame, poly) ==
    Perms({i \in 1..Len(frame.rows) : intersects(frame.rows[i].geometry, poly)})

RECURSIVE Flatten(_)
Flatten(ss) == IF ss = <<>> THEN <<>> ELSE Head(ss) \o Flatten(Tail(ss))

\* explode: one row per part of each row's geometry; identity and attribute
\* values are those of the parent row.
explode(frame) ==
    [frame EXCEPT !.rows =
        Flatten([i \in 1..Len(frame.rows) |->
            LET r == frame.rows[i]
                ps == explode_geometry(r.geometry)
            IN [k \in 1..Len(ps) |-> [r EXCEPT !.geometry = ps[k], !.part = k - 1]]])]

(***************************************************************************)
(* Inputs of one call.                                                     *)
(***************************************************************************)

P_touch == Cl({<<1, 1>>})
P_multi == Cl({<<1, 1>>, <<5, 1>>, <<3, 3>>})
P_in == Cl({<<3, 1>>})
L_mixed == Cl({<<3, 0>>, <<1, 2>>})
Pt_near == {<<0, 0>>}
Pt_far == {<<6, 4>>}
GC_in == Cl({<<3, 1>>}) \cup {<<0, 4>>}

Palette == {P_touch, P_multi, P_in, L_mixed, Pt_near, Pt_far, GC_in}

GeomSeqs == UNION {[1..n -> Palette] : n \in 0..MaxRows}

InputFrames ==
    {MakeFrame("GeoDataFrame", cols, gs) :
        cols \in {{"name"}, {"name", "_order"}}, gs \in GeomSeqs}
    \cup {MakeFrame("GeoSeries", {}, gs) : gs \in GeomSeqs}
    \cup {MakeFrame("Other", {}, <<>>)}

MaskSquare == Cl({<<3, 1>>})
MaskStrip == Cl({<<1, 1>>, <<3, 1>>, <<5, 1>>})
MaskTwo == Cl({<<1, 1>>, <<5, 1>>})

Masks ==
    {[kind |-> "Polygon", geoms |-> <<g>>, same_crs |-> TRUE] : g \in {MaskSquare, MaskStrip}}
    \cup {[kind |-> "MultiPolygon", geoms |-> <<MaskTwo>>, same_crs |-> TRUE]}
    \cup {[kind |-> "GeoDataFrame", geoms |-> gs, same_crs |-> c] :
            gs \in {<<>>, <<MaskSquare>>,
                    <<Cl({<<1, 1>>, <<3, 1>>}), Cl({<<3, 1>>, <<5, 1>>})>>},
            c \in BOOLEAN}
    \cup {[kind |-> "GeoSeries", geoms |-> <<Cl({<<1, 1>>}), Cl({<<5, 1>>})>>,
           same_crs |-> TRUE]}
    \cup {[kind |-> "Other", geoms |-> <<>>, same_crs |-> TRUE]}

(***************************************************************************)
(* src/geopandas/tools/clip.py                                             *)
(***************************************************************************)

_POINT_TYPES == {"Point", "MultiPoint"}
_LINE_TYPES == {"LineString", "MultiLineString", "LinearRing"}
_POLYGON_TYPES == {"Polygon", "MultiPolygon"}
_GEOMETRY_TYPES == <<_POINT_TYPES, _LINE_TYPES, _POLYGON_TYPES>>

\* Mutant: the rows are selected but their geometries are not intersected.
_clip_gdf_with_polygon_unclipped(g, poly, hits) ==
    [g EXCEPT !.rows = [k \in 1..Len(hits) |-> g.rows[hits[k]]]]

\* gdf.iloc[hits] with every geometry replaced by its intersection with poly.
\* The GeoDataFrame branch copies the rows and sets the geometry column; the
\* GeoSeries branch yields the intersections (a series has no other column).
_clip_gdf_with_polygon(g, poly, hits) ==
    [g EXCEPT !.rows =
        [k \in 1..Len(hits) |->
            [g.rows[hits[k]] EXCEPT !.geometry = intersection(@, poly)]]]

\* TRUE when the isinstance test passes (no TypeError).
_validate_input_gdf(g) == g.kind \in {"GeoDataFrame", "GeoSeries"}

_validate_input_mask(m) ==
    m.kind \in {"GeoDataFrame", "GeoSeries", "Polygon", "MultiPolygon"}

_check_crs(g, m) == m.same_crs

_warn_if_crs_mismatch(g, m) ==
    IF m.kind \in {"GeoDataFrame", "GeoSeries"} /\ ~_check_crs(g, m)
    THEN <<"crs_mismatch">>
    ELSE <<>>

\* Mutant: the CRS check runs before the two type checks.
_validate_inputs_warn_first(g, m) ==
    IF ~_validate_input_gdf(g)
    THEN [raised |-> 58, warnings |-> _warn_if_crs_mismatch(g, m)]
    ELSE IF ~_validate_input_mask(m)
    THEN [raised |-> 65, warnings |-> _warn_if_crs_mismatch(g, m)]
    ELSE [raised |-> 0, warnings |-> _warn_if_crs_mismatch(g, m)]

\* raised: the line of the raise statement reached, 0 when none.
_validate_inputs(g, m) ==
    IF ~_validate_input_gdf(g) THEN [raised |-> 58, warnings |-> <<>>]
    ELSE IF ~_validate_input_mask(m) THEN [raised |-> 65, warnings |-> <<>>]
    ELSE [raised |-> 0, warnings |-> _warn_if_crs_mismatch(g, m)]

_contains_geometrycollection(frame) == "GeometryCollection" \in geom_types(frame)

_get_number_of_unique_geometry_types(frame) ==
    Cardinality({k \in 1..Len(_GEOMETRY_TYPES) :
                    geom_types(frame) \cap _GEOMETRY_TYPES[k] # {}})

\* Mutant: the mixed-family test is left out.
_keeping_geometry_type_is_possible_unmixed(frame) ==
    IF _contains_geometrycollection(frame)
    THEN [possible |-> FALSE, warnings |-> <<"keep_geom_type_geometrycollection">>]
    ELSE [possible |-> TRUE, warnings |-> <<>>]

_keeping_geometry_type_is_possible(frame) ==
    IF _contains_geometrycollection(frame)
    THEN [possible |-> FALSE, warnings |-> <<"keep_geom_type_geometrycollection">>]
    ELSE IF _get_number_of_unique_geometry_types(frame) > 1
    THEN [possible |-> FALSE, warnings |-> <<"keep_geom_type_mixed">>]
    ELSE [possible |-> TRUE, warnings |-> <<>>]

_get_mask_bounding_box(m) ==
    IF m.kind \in {"GeoDataFrame", "GeoSeries"}
    THEN total_bounds(m.geoms)
    ELSE bounds(m.geoms[1])

\* Mutant: strict comparisons, so that touching boxes do not overlap.
_input_bounding_boxes_intersect_strict(g, m) ==
    LET box_gdf == total_bounds(geometries(g))
        box_mask == _get_mask_bounding_box(m)
        x_overlaps == (Le(box_mask[1], box_gdf[3]) /\ box_mask[1] # box_gdf[3])
                      /\ (Le(box_gdf[1], box_mask[3]) /\ box_gdf[1] # box_mask[3])
        y_overlaps == (Le(box_mask[2], box_gdf[4]) /\ box_mask[2] # box_gdf[4])
                      /\ (Le(box_gdf[2], box_mask[4]) /\ box_gdf[2] # box_mask[4])
    IN x_overlaps /\ y_overlaps

_input_bounding_boxes_intersect(g, m) ==
    LET box_gdf == total_bounds(geometries(g))
        box_mask == _get_mask_bounding_box(m)
        x_overlaps == Le(box_mask[1], box_gdf[3]) /\ Le(box_gdf[1], box_mask[3])
        y_overlaps == Le(box_mask[2], box_gdf[4]) /\ Le(box_gdf[2], box_mask[4])
    IN x_overlaps /\ y_overlaps

\* Mutant: gdf.iloc[:] instead of gdf.iloc[:0].
_empty_from_gdf_all_rows(g) == g

_empty_from_gdf(g) == [g EXCEPT !.rows = SubSeq(g.rows, 1, 0)]

_create_mask_polygon(m) ==
    IF m.kind \in {"GeoDataFrame", "GeoSeries"}
    THEN unary_union(m.geoms)
    ELSE m.geoms[1]

\* clipped_gdf.loc[clipped_gdf.geom_type.isin(types)]
RowsOfTypes(frame, types) ==
    [frame EXCEPT !.rows = SelectSeq(frame.rows, LAMBDA r : geom_type(r.geometry) \in types)]

\* Mutant: the polygon branch is missing (only lines are filtered).
_keep_only_original_geom_type_lines_only(clipped, original_type) ==
    LET new_collections_were_created == "GeometryCollection" \in geom_types(clipped)
        type_count_has_increased == _get_number_of_unique_geometry_types(clipped) > 1
        exploded == IF new_collections_were_created THEN explode(clipped) ELSE clipped
    IN IF new_collections_were_created \/ type_count_has_increased
       THEN IF original_type \in _LINE_TYPES THEN RowsOfTypes(exploded, _LINE_TYPES)
            ELSE exploded
       ELSE clipped

_keep_only_original_geom_type(clipped, original_type) ==
    LET new_collections_were_created == "GeometryCollection" \in geom_types(clipped)
        type_count_has_increased == _get_number_of_unique_geometry_types(clipped) > 1
        exploded == IF new_collections_were_created THEN explode(clipped) ELSE clipped
    IN IF new_collections_were_created \/ type_count_has_increased
       THEN IF original_type \in _LINE_TYPES THEN RowsOfTypes(exploded, _LINE_TYPES)
            ELSE IF original_type \in _POLYGON_TYPES THEN RowsOfTypes(exploded, _POLYGON_TYPES)
            ELSE exploded
       ELSE clipped

\* clipped["_order"] = order: each row gets the rank of the original row with
\* its label (alignment on the index).
WithOrder(original, clipped) ==
    [clipped EXCEPT
        !.columns = @ \cup {"_order"},
        !.rows = [k \in 1..Len(clipped.rows) |->
                    LET r == clipped.rows[k]
                        rank == PosOf(original, r.label) - 1
                    IN [r EXCEPT !.attrs =
                          [c \in clipped.columns \cup {"_order"} |->
                              IF c = "_order" THEN rank ELSE r.attrs[c]]]]]

\* The arrangements of `rows` that ascend in _order: rank by rank, the rows of
\* that rank in any order.
RECURSIVE Ascending(_, _)
Ascending(rows, ranks) ==
    IF ranks = {} THEN {<<>>}
    ELSE LET lo == CHOOSE v \in ranks : \A w \in ranks : v <= w
             tied == SelectSeq(rows, LAMBDA r : r.attrs["_order"] = lo)
         IN {[k \in 1..Len(tied) |-> tied[p[k]]] \o rest :
                p \in Perms(1..Len(tied)), rest \in Ascending(rows, ranks \ {lo})}

\* sort_values(by="_order") with the default kind="quicksort", which is not a
\* stable sort: any arrangement of the rows that ascends in _order.
sort_values_by_order(frame) ==
    {[frame EXCEPT !.rows = rows] :
        rows \in Ascending(frame.rows,
                           {frame.rows[k].attrs["_order"] : k \in 1..Len(frame.rows)})}

\* .drop(columns="_order") of a frame; .geometry of the frame built around a
\* series: in both the helper column is gone.
DropOrder(frame) ==
    [frame EXCEPT
        !.columns = @ \ {"_order"},
        !.rows = [k \in 1..Len(frame.rows) |->
                    [frame.rows[k] EXCEPT !.attrs = [c \in frame.columns \ {"_order"} |-> @[c]]]]]

\* Mutant: the helper column is attached and dropped, but the rows are not sorted.
_recreate_initial_order_unsorted(original_gdf, clipped) ==
    {DropOrder(WithOrder(original_gdf, clipped))}

\* The set of frames the function can return.
_recreate_initial_order(original_gdf, clipped) ==
    {DropOrder(f) : f \in sort_values_by_order(WithOrder(original_gdf, clipped))}

(***************************************************************************)
(* clip(gdf, mask, keep_geom_type), lines 203-218, statement by statement. *)
(***************************************************************************)

Init ==
    /\ gdf \in InputFrames
    /\ mask \in Masks
    /\ keep_geom_type \in BOOLEAN
    /\ pc = "validate"
    /\ mask_polygon = {}
    /\ clipped_gdf = NoFrame
    /\ result = [status |-> "pending", value |-> NoFrame]
    /\ warnings = <<>>
    /\ computed = {}
    /\ exit_line = 0

\* line 203
clip_validate ==
    /\ pc = "validate"
    /\ LET v == _validate_inputs(gdf, mask)
       IN /\ warnings' = warnings \o v.warnings
          /\ IF v.raised # 0
             THEN /\ pc' = "done"
                  /\ result' = [status |-> "TypeError", value |-> NoFrame]
                  /\ exit_line' = v.raised
             ELSE /\ pc' = "bounding_boxes"
                  /\ UNCHANGED <<result, exit_line>>
    /\ UNCHANGED <<gdf, mask, keep_geom_type, mask_polygon, clipped_gdf, computed>>

\* lines 204-205
clip_bounding_boxes ==
    /\ pc = "bounding_boxes"
    /\ computed' = computed \cup {"total_bounds"}
    /\ IF ~_input_bounding_boxes_intersect(gdf, mask)
       THEN /\ pc' = "done"
            /\ result' = [status |-> "returned", value |-> _empty_from_gdf(gdf)]
            /\ exit_line' = 205
       ELSE /\ pc' = "mask_polygon"
            /\ UNCHANGED <<result, exit_line>>
    /\ UNCHANGED <<gdf, mask, keep_geom_type, mask_polygon, clipped_gdf, warnings>>

\* line 207
clip_mask_polygon ==
    /\ pc = "mask_polygon"
    /\ mask_polygon' = _create_mask_polygon(mask)
    /\ computed' = computed \cup (IF mask.kind \in {"GeoDataFrame", "GeoSeries"}
                                  THEN {"unary_union"} ELSE {})
    /\ pc' = "clip"
    /\ UNCHANGED <<gdf, mask, keep_geom_type, clipped_gdf, result, warnings, exit_line>>

\* lines 208-210
clip_with_polygon ==
    /\ pc = "clip"
    /\ \E hits \in sindex_query(gdf, mask_polygon) :
          LET clipped == _clip_gdf_with_polygon(gdf, mask_polygon, hits)
          IN /\ clipped_gdf' = clipped
             /\ IF Len(clipped.rows) = 0
                THEN /\ pc' = "done"
                     /\ result' = [status |-> "returned", value |-> _empty_from_gdf(gdf)]
                     /\ exit_line' = 210
                ELSE /\ pc' = "keep_geom_type"
                     /\ UNCHANGED <<result, exit_line>>
    /\ computed' = computed \cup {"sindex_query", "intersection"}
    /\ UNCHANGED <<gdf, mask, keep_geom_type, mask_polygon, warnings>>

\* lines 212-216
clip_keep_geom_type ==
    /\ pc = "keep_geom_type"
    /\ IF keep_geom_type
       THEN LET k == _keeping_geometry_type_is_possible(gdf)
            IN /\ warnings' = warnings \o k.warnings
               /\ IF k.possible
                  THEN /\ clipped_gdf' = _keep_only_original_geom_type(
                                            clipped_gdf, geom_type(gdf.rows[1].geometry))
                       /\ computed' = computed \cup
                            (IF "GeometryCollection" \in geom_types(clipped_gdf)
                             THEN {"explode"} ELSE {})
                  ELSE UNCHANGED <<clipped_gdf, computed>>
       ELSE UNCHANGED <<clipped_gdf, computed, warnings>>
    /\ pc' = "order"
    /\ UNCHANGED <<gdf, mask, keep_geom_type, mask_polygon, result, exit_line>>

\* Mutant: the helper column is written to the caller's collection.
clip_return_in_place ==
    /\ pc = "order"
    /\ \E out \in _recreate_initial_order(gdf, clipped_gdf) :
          result' = [status |-> "returned", value |-> out]
    /\ gdf' = WithOrder(gdf, gdf)
    /\ pc' = "done"
    /\ exit_line' = 218
    /\ UNCHANGED <<mask, keep_geom_type, mask_polygon, clipped_gdf, warnings, computed>>

\* line 218
clip_return ==
    /\ pc = "order"
    /\ \E out \in _recreate_initial_order(gdf, clipped_gdf) :
          result' = [status |-> "returned", value |-> out]
    /\ pc' = "done"
    /\ exit_line' = 218
    /\ UNCHANGED <<gdf, mask, keep_geom_type, mask_polygon, clipped_gdf, warnings, computed>>

Next ==
    \/ clip_validate
    \/ clip_bounding_boxes
    \/ clip_mask_polygon
    \/ clip_with_polygon
    \/ clip_keep_geom_type
    \/ clip_return

Spec == Init /\ [][Next]_vars

(***************************************************************************)
(* Properties.                                                             *)
(***************************************************************************)

Returned == pc = "done" /\ result.status = "returned"

Out == result.value.rows

ValidCall ==
    /\ gdf.kind \in {"GeoDataFrame", "GeoSeries"}
    /\ mask.kind \in {"GeoDataFrame", "GeoSeries", "Polygon", "MultiPolygon"}

\* The mask after resolution (the union of a mask collection).
ResolvedMask == _create_mask_polygon(mask)

\* The original row an output row derives from, by its identity.
OriginalOf(r) == gdf.rows[PosOf(gdf, r.label)]

ExactIntersection(r) == intersection(OriginalOf(r).geometry, ResolvedMask)

HitPositions ==
    {i \in 1..Len(gdf.rows) : intersects(gdf.rows[i].geometry, ResolvedMask)}

\* The geometry types of the raw intersections, before any reconciliation.
RawTypes ==
    {geom_type(intersection(gdf.rows[i].geometry, ResolvedMask)) : i \in HitPositions}

FamilyCount(types) ==
    Cardinality({F \in {_POINT_TYPES, _LINE_TYPES, _POLYGON_TYPES} : types \cap F # {}})

InputAllOf(F) ==
    /\ Len(gdf.rows) > 0
    /\ \A i \in 1..Len(gdf.rows) : geom_type(gdf.rows[i].geometry) \in F

RawMixed == "GeometryCollection" \in RawTypes \/ FamilyCount(RawTypes) > 1

\* C1 as stated: with keep_geom_type, a Polygon-only (Line-only) input yields
\* only Polygon-family (Line-family) output rows, so a lone boundary remnant
\* leaves zero rows.
C1_OnlyOriginalFamily ==
    \A F \in {_LINE_TYPES, _POLYGON_TYPES} :
        (Returned /\ keep_geom_type /\ InputAllOf(F))
            => \A k \in 1..Len(Out) : geom_type(Out[k].geometry) \in F

\* C1 amended: with keep_geom_type and a Polygon-only (Line-only) input, the
\* output is all Polygon-family (Line-family) whenever the raw intersections
\* contain a GeometryCollection or span more than one family; when they are all
\* of one single family, whichever it is, every one of them is returned as it is.
C1_FilteredOnlyWhenMixed ==
    \A F \in {_LINE_TYPES, _POLYGON_TYPES} :
        (Returned /\ keep_geom_type /\ InputAllOf(F))
            => IF RawMixed
               THEN \A k \in 1..Len(Out) : geom_type(Out[k].geometry) \in F
               ELSE /\ Len(Out) = Cardinality(HitPositions)
                    /\ \A k \in 1..Len(Out) : Out[k].geometry = ExactIntersection(Out[k])

C1_Witness ==
    /\ Returned /\ keep_geom_type /\ exit_line = 218
    /\ InputAllOf(_POLYGON_TYPES)
    /\ RawMixed
    /\ Len(Out) > 0
    /\ Len(Out) < Cardinality(HitPositions)

\* C2: output rows keep the relative order of the original rows they derive
\* from: a row derived from a later original row never precedes a row derived
\* from an earlier one.
C2_OrderPreserved ==
    Returned =>
        \A p, q \in 1..Len(Out) :
            PosOf(gdf, Out[p].label) < PosOf(gdf, Out[q].label) => p < q

C2_Witness ==
    /\ Returned /\ exit_line = 218
    /\ Len(Out) > 2
    /\ "explode" \in computed
    /\ PosOf(gdf, clipped_gdf.rows[1].label) > 1

\* The closed-interval overlap test on two boxes with defined coordinates.
BoxesOverlap(coll, m) ==
    /\ \A k \in 1..4 : coll[k] # NaN /\ m[k] # NaN
    /\ ~(m[1] > coll[3]) /\ ~(coll[1] > m[3])
    /\ ~(m[2] > coll[4]) /\ ~(coll[2] > m[4])

MaskBounds ==
    IF mask.kind \in {"GeoDataFrame", "GeoSeries"}
    THEN bounds(unary_union(mask.geoms))
    ELSE bounds(mask.geoms[1])

\* C3: clip returns through the bounding-box short-circuit exactly when the
\* total bounds of input and mask fail the closed-interval overlap test; the
\* result then has zero rows and the input's kind and columns, and neither the
\* mask union nor the index query nor an intersection has been computed.
C3_BoundingBoxShortCircuit ==
    Returned =>
        /\ exit_line = 205 <=> ~BoxesOverlap(bounds(unary_union(geometries(gdf))), MaskBounds)
        /\ exit_line = 205 =>
              /\ Out = <<>>
              /\ result.value.kind = gdf.kind
              /\ result.value.columns = gdf.columns
              /\ computed \cap {"unary_union", "sindex_query", "intersection"} = {}

C3_Witness ==
    /\ Returned /\ exit_line = 205
    /\ Len(gdf.rows) > 1
    /\ mask.kind = "GeoDataFrame" /\ Len(mask.geoms) > 1

EmptyMaskCollection ==
    /\ ValidCall
    /\ mask.kind \in {"GeoDataFrame", "GeoSeries"}
    /\ mask.geoms = <<>>

\* C4 as stated: a mask collection with zero features makes clip fail with
\* InvalidMask.
C4_EmptyMaskRaises ==
    (pc = "done" /\ EmptyMaskCollection) => result.status = "InvalidMask"

\* C4 amended: a mask collection with zero features raises nothing; clip
\* returns a zero-row result with the input's kind and columns.
C4_EmptyMaskReturnsEmpty ==
    (pc = "done" /\ EmptyMaskCollection) =>
        /\ result.status = "returned"
        /\ Out = <<>>
        /\ result.value.kind = gdf.kind
        /\ result.value.columns = gdf.columns

C4_Witness == pc = "done" /\ EmptyMaskCollection /\ Len(gdf.rows) > 0

\* C5: an input or mask of a kind that is not accepted ends the call with the
\* TypeError at once: no CRS warning, no bounds, union, query or intersection,
\* and no result.
C5_TypeErrorFirst ==
    (pc = "done" /\ ~ValidCall) =>
        /\ result.status = "TypeError"
        /\ result.value = NoFrame
        /\ exit_line \in {58, 65}
        /\ warnings = <<>>
        /\ computed = {}
        /\ clipped_gdf = NoFrame

C5_Witness ==
    /\ pc = "done" /\ result.status = "TypeError"
    /\ gdf.kind = "Other"
    /\ mask.kind = "GeoDataFrame" /\ ~mask.same_crs

\* C6 as stated: every output geometry is the exact intersection of some
\* original row's geometry with the resolved mask.
C6_ExactIntersection ==
    Returned =>
        \A k \in 1..Len(Out) :
            \E i \in 1..Len(gdf.rows) :
                Out[k].geometry = intersection(gdf.rows[i].geometry, ResolvedMask)

\* C6 amended: every output geometry is the exact intersection of its original
\* row's geometry with the resolved mask or, when type reconciliation exploded
\* the clip result, one single part of that intersection.
C6_IntersectionOrPart ==
    Returned =>
        \A k \in 1..Len(Out) :
            IF "explode" \in computed
            THEN Out[k].geometry \in Parts(ExactIntersection(Out[k]))
            ELSE Out[k].geometry = ExactIntersection(Out[k])

C6_Witness ==
    /\ Returned /\ "explode" \in computed
    /\ \E k \in 1..Len(Out) :
          /\ Out[k].geometry # ExactIntersection(Out[k])
          /\ Out[k].geometry # OriginalOf(Out[k]).geometry

\* C7: the output has exactly the input's attribute columns, whatever their
\* names, and every output row carries the attribute values of the original
\* row with its identity.
C7_ColumnsAndAttributesKept ==
    Returned =>
        /\ result.value.columns = gdf.columns
        /\ \A k \in 1..Len(Out) :
              /\ \E i \in 1..Len(gdf.rows) : gdf.rows[i].label = Out[k].label
              /\ Out[k].attrs = OriginalOf(Out[k]).attrs

OriginalMixedOrCollection ==
    "GeometryCollection" \in geom_types(gdf) \/ FamilyCount(geom_types(gdf)) > 1

ReconciliationSkipped ==
    \E k \in 1..Len(warnings) :
        warnings[k] \in {"keep_geom_type_geometrycollection", "keep_geom_type_mixed"}

\* What the same call returns with keep_geom_type = False (the index order and
\* the sort cannot change it: without explode no two rows share a rank).
UnreconciledResult ==
    IF ~_input_bounding_boxes_intersect(gdf, mask) THEN _empty_from_gdf(gdf)
    ELSE LET hits == CHOOSE s \in sindex_query(gdf, ResolvedMask) :
                        \A i, j \in 1..Len(s) : i < j => s[i] < s[j]
             clipped == _clip_gdf_with_polygon(gdf, ResolvedMask, hits)
         IN IF Len(clipped.rows) = 0 THEN _empty_from_gdf(gdf)
            ELSE CHOOSE f \in _recreate_initial_order(gdf, clipped) : TRUE

\* C8 as stated: with keep_geom_type on an input that holds a
\* GeometryCollection or mixes families, clip warns, raises nothing and returns
\* what keep_geom_type = False returns.
C8_SkipAlwaysWarns ==
    (pc = "done" /\ ValidCall /\ keep_geom_type /\ OriginalMixedOrCollection) =>
        /\ ReconciliationSkipped
        /\ result.status = "returned"
        /\ result.value = UnreconciledResult

\* C8 amended: such a call raises nothing and returns what keep_geom_type =
\* False returns; it warns exactly when at least one row intersects the mask
\* (the empty-result returns come before the test that warns).
C8_SkipWarnsWhenNonEmpty ==
    (pc = "done" /\ ValidCall /\ keep_geom_type /\ OriginalMixedOrCollection) =>
        /\ result.status = "returned"
        /\ result.value = UnreconciledResult
        /\ ReconciliationSkipped <=> HitPositions # {}

C8_Witness ==
    /\ pc = "done" /\ ValidCall /\ keep_geom_type /\ OriginalMixedOrCollection
    /\ ReconciliationSkipped
    /\ FamilyCount(geom_types(result.value)) > 1

====
